---------------------------- MODULE Spec2Model ----------------------------
(***************************************************************************)
(* Model of tray_rust's animated transform (src/linalg/animated_transform  *)
(* .rs) and geometry instances (src/geometry/instance.rs).                 *)
(*                                                                         *)
(* Conventions                                                             *)
(*  - Rust indexes levels from 0, TLA+ sequences from 1: level i of the    *)
(*    source is self[i + 1] here.                                          *)
(*  - Time is counted in integer ticks.  A keyframe time unit is           *)
(*    2 * SampleSteps ticks, so that the 128 sample times of               *)
(*    animation_bounds and the half-way points between keyframes are all   *)
(*    integers.                                                            *)
(*  - linalg::Transform is not part of the modelled sources.  A Transform  *)
(*    is a word over level transforms (the free monoid): Identity is the   *)
(*    empty word and a * b is a followed by b.  Two words are equal iff    *)
(*    the products are equal for every associative multiplication, so an   *)
(*    identity that needs commuting factors fails here.                    *)
(*  - geometry::BBox is not part of the modelled sources.  A box is the    *)
(*    set of transforms T such that the box covers T * b, for the one      *)
(*    input box b.                                                         *)
(***************************************************************************)
EXTENDS Integers, Sequences, FiniteSets, TLC

\* ---------------------------------------------------------------- bounds

\* keyframe times are 0 .. MaxTime (in keyframe time units)
MaxTime == 2
\* the longest Vec<Keyframe> handed to with_keyframes, and the most keyframes
\* insert grows a level to
MaxKeys == 3
\* the most levels a composed AnimatedTransform has
MaxLevels == 2

\* ------------------------------------------------------ program constants

\* `for i in 0..128`
NumSamples == 128
\* `(i as f32) / 127.0`
SampleSteps == 127

\* ------------------------------------------------------------- keyframes

TimeUnit == 2 * SampleSteps

KeyTime(k) == k * TimeUnit

\* two transforms that do not commute; keyframes alternate between them
KeyXf(k) == IF k % 2 = 0 THEN "X" ELSE "Y"

Keyframe(k) == [time |-> KeyTime(k), xf |-> KeyXf(k)]

Keyframes == { Keyframe(k) : k \in 0..MaxTime }

NoKey == [time |-> -1, xf |-> "none"]

\* query times: one unit before the first keyframe to one unit after the
\* last, in half units
QueryTimes == { h * SampleSteps : h \in (-2)..(2 * MaxTime + 2) }

\* shutter intervals handed to animation_bounds
Windows == { <<KeyTime(0), KeyTime(MaxTime)>>, <<KeyTime(0), KeyTime(1)>>,
             <<KeyTime(1), KeyTime(1)>> }

RECURSIVE Gcd(_, _)
Gcd(a, b) == IF b = 0 THEN a ELSE Gcd(b, a % b)

\* ------------------------------------------------- linalg (outside src/)

\* Transform::identity()
Identity == << >>

\* Transform * Transform
TMul(a, b) == a \o b

\* Keyframe::transform(): the transform a keyframe stands for
Static(xf) == << [from |-> xf, to |-> xf, num |-> 0, den |-> 1] >>

KeyTransform(k) == Static(k.xf)

\* keyframe::interpolate(time, first, second): the blend of the two
\* keyframes at the fraction (time - first.time) / (second.time - first.time)
interpolate(time, first, second) ==
    LET n == time - first.time
        d == second.time - first.time
        g == Gcd(IF n < 0 THEN -n ELSE n, IF d < 0 THEN -d ELSE d)
    IN  IF d = 0 \/ first.xf = second.xf THEN Static(first.xf)
        ELSE IF n = d THEN Static(second.xf)
        ELSE << [from |-> first.xf, to |-> second.xf,
                 num |-> n \div g, den |-> d \div g] >>

\* linalg::lerp(t, a, b) = a * (1 - t) + b * t, for t = num / den
lerp(num, den, a, b) == (a * (den - num) + b * num) \div den

\* BBox::new(): the empty box
BBoxNew == {}

\* Transform * BBox, for the input box
BoxMul(t) == {t}

\* BBox::box_union
box_union(a, b) == a \cup b

\* ----------------------------------------------- BTreeSet<Keyframe>

\* a level is a BTreeSet<Keyframe>: the keyframes in increasing time, no two
\* of the same time
RECURSIVE take_while_lt(_, _)
take_while_lt(stack, time) ==
    IF stack = << >> \/ ~(Head(stack).time < time) THEN << >>
    ELSE << Head(stack) >> \o take_while_lt(Tail(stack), time)

RECURSIVE skip_while_lt(_, _)
skip_while_lt(stack, time) ==
    IF stack = << >> \/ ~(Head(stack).time < time) THEN stack
    ELSE skip_while_lt(Tail(stack), time)

\* BTreeSet::insert: an element equal to one already in the set leaves the
\* set as it is
btree_insert(stack, k) ==
    LET lo == take_while_lt(stack, k.time)
        hi == skip_while_lt(stack, k.time)
    IN  IF hi # << >> /\ Head(hi).time = k.time THEN stack
        ELSE lo \o << k >> \o hi

\* Vec<Keyframe>::into_iter().collect::<BTreeSet<_>>()
RECURSIVE collect(_)
collect(vec) ==
    IF vec = << >> THEN << >>
    ELSE btree_insert(collect(SubSeq(vec, 1, Len(vec) - 1)), vec[Len(vec)])

\* ----------------------------------------------------- AnimatedTransform

\* AnimatedTransform::new
new == << >>

\* AnimatedTransform::with_keyframes
with_keyframes(keyframes) == << collect(keyframes) >>

\* insert indexes self.keyframes[0]: out of bounds on an empty level list
insert_panics(self) == Len(self) = 0

\* AnimatedTransform::insert
insert(self, keyframe) == [self EXCEPT ![1] = btree_insert(@, keyframe)]

\* level_eval with `k.time <= time` in take_while and skip_while
level_eval_le(stack, time) ==
    IF Len(stack) = 1
    THEN [kind |-> "single", first |-> stack[1], second |-> NoKey]
    ELSE LET lo == take_while_lt(stack, time + 1)
             hi == skip_while_lt(stack, time + 1)
             first == IF lo = << >> THEN NoKey ELSE lo[Len(lo)]
             second == IF hi = << >> THEN NoKey ELSE hi[1]
         IN  IF first = NoKey
             THEN IF stack = << >>
                  THEN [kind |-> "panic", first |-> NoKey, second |-> NoKey]
                  ELSE [kind |-> "head", first |-> stack[1], second |-> NoKey]
             ELSE IF second = NoKey
             THEN [kind |-> "last", first |-> stack[Len(stack)], second |-> NoKey]
             ELSE [kind |-> "interpolate", first |-> first, second |-> second]

\* the branch transform takes for one level, and the keyframes it reads
level_eval(stack, time) ==
    IF Len(stack) = 1
    THEN [kind |-> "single", first |-> stack[1], second |-> NoKey]
    ELSE LET lo == take_while_lt(stack, time)
             hi == skip_while_lt(stack, time)
             first == IF lo = << >> THEN NoKey ELSE lo[Len(lo)]
             second == IF hi = << >> THEN NoKey ELSE hi[1]
         IN  IF first = NoKey
             THEN IF stack = << >>
                  THEN [kind |-> "panic", first |-> NoKey, second |-> NoKey]
                  ELSE [kind |-> "head", first |-> stack[1], second |-> NoKey]
             ELSE IF second = NoKey
             THEN [kind |-> "last", first |-> stack[Len(stack)], second |-> NoKey]
             ELSE [kind |-> "interpolate", first |-> first, second |-> second]

\* the transform of one level at `time`
level_transform(stack, time) ==
    LET e == level_eval(stack, time)
    IN  IF e.kind = "interpolate" THEN interpolate(time, e.first, e.second)
        ELSE KeyTransform(e.first)

\* `stack.iter().next().unwrap()` on a level without keyframes
transform_panics(self) == \E i \in 1..Len(self) : self[i] = << >>

\* transform_loop with `transform = transform * t`
RECURSIVE transform_loop_child_last(_, _, _)
transform_loop_child_last(self, time, n) ==
    IF n = 0 THEN Identity
    ELSE TMul(transform_loop_child_last(self, time, n - 1),
              level_transform(self[n], time))

\* the loop of transform after its first n iterations
RECURSIVE transform_loop(_, _, _)
transform_loop(self, time, n) ==
    IF n = 0 THEN Identity
    ELSE TMul(level_transform(self[n], time), transform_loop(self, time, n - 1))

\* AnimatedTransform::transform
transform(self, time) == transform_loop(self, time, Len(self))

\* AnimatedTransform::is_animated
is_animated(self) ==
    self = << >> \/ \A i \in 1..Len(self) : Len(self[i]) > 1

\* the sample times of animation_bounds
sample_time(i, start, end) == lerp(i, SampleSteps, start, end)

\* bounds_loop with the last sample left out
bounds_loop_short(self, start, end, n) ==
    UNION ({ BBoxNew } \cup
           { BoxMul(transform(self, sample_time(i, start, end))) : i \in 0..(n - 2) })

\* the loop of animation_bounds: the union of the boxes at samples 0 .. n - 1
bounds_loop(self, start, end, n) ==
    UNION ({ BBoxNew } \cup
           { BoxMul(transform(self, sample_time(i, start, end))) : i \in 0..(n - 1) })

\* AnimatedTransform::animation_bounds
animation_bounds(self, start, end) ==
    IF ~is_animated(self) THEN BoxMul(transform(self, start))
    ELSE bounds_loop(self, start, end, NumSamples)

\* mul that pushes the levels of rhs after those of self
mul_self_first(self, rhs) == self \o rhs

\* mul that pushes only level 0 of self
mul_level_0(self, rhs) == IF self = << >> THEN rhs ELSE Append(rhs, self[1])

\* impl Mul for AnimatedTransform: each level of self is pushed onto rhs
mul(self, rhs) == rhs \o self


\* ----------------------------------------------------- geometry instances

\* the hit distances a geometry can have along the ray are 1 .. MaxDist
MaxDist == 3

\* no intersection of the ray with the geometry at all
NoHit == 0

\* max_t of a ray that has hit nothing yet (f32::INFINITY)
Infinity == MaxDist + 1

InstanceIds == 1..3

Placement(i) == IF i = 1 THEN "T1" ELSE "T2"

\* instances 1 and 2 share one geometry handle
GeomOf(i) == IF i = 3 THEN "g2" ELSE "g1"

\* Receiver::new / Emitter::new, by way of Instance::receiver / Instance::emitter
InstanceNew(kind, geom, material, placement, tag) ==
    [kind |-> kind, geom |-> geom, material |-> material,
     transform |-> placement, tag |-> tag]

Instances ==
    [i \in InstanceIds |->
        InstanceNew(IF i = 2 THEN "Emitter" ELSE "Receiver", GeomOf(i),
                    IF i = 1 THEN "m1" ELSE "m2", Placement(i), i)]

\* a point or vector `v` mapped by the transform `by`
Mapped(by, v) == [by |-> by, v |-> v]

\* Transform::inv_mul_ray (outside src/): origin and direction through the
\* inverse, the parametric bounds as they are
inv_mul_ray(t, r) ==
    [o |-> Mapped("inv " \o t, r.o.v), d |-> Mapped("inv " \o t, r.d.v),
     min_t |-> r.min_t, max_t |-> r.max_t]

\* the DifferentialGeometry a geometry returns, in its local space
LocalDg == [p |-> Mapped("local", "p"), n |-> Mapped("local", "n"),
            ng |-> Mapped("local", "ng"), dp_du |-> Mapped("local", "dp_du"),
            dp_dv |-> Mapped("local", "dp_dv")]

\* BoundableGeom::intersect (outside src/): what the geometry may answer for
\* the local ray, given the distance `d` at which the ray meets it.  An
\* "exact" geometry hits only within [min_t, max_t]; a "sloppy" one ignores
\* max_t.  On a miss the geometry may have written to the local ray.
geom_intersect(behaviour, d, local) ==
    IF /\ d # NoHit
       /\ local.min_t <= d
       /\ (behaviour = "sloppy" \/ d <= local.max_t)
    THEN { [hit |-> TRUE, local |-> [local EXCEPT !.max_t = d]] }
    ELSE { [hit |-> FALSE, local |-> local],
           [hit |-> FALSE, local |-> [local EXCEPT !.max_t = NoHit]] }

\* receiver_intersect with `ray.max_t = local.max_t` ahead of the match
receiver_intersect_leaks(self, r, answer) ==
    IF ~answer.hit
    THEN [ray |-> [r EXCEPT !.max_t = answer.local.max_t], self |-> self,
          some |-> FALSE, dg |-> LocalDg, material |-> "none"]
    ELSE [ray |-> [r EXCEPT !.max_t = answer.local.max_t], self |-> self,
          some |-> TRUE,
          dg |-> [f \in DOMAIN LocalDg |-> Mapped(self.transform, LocalDg[f].v)],
          material |-> self.material]

\* Receiver::intersect, from the geometry's answer on: the ray, the instance
\* and the value returned
receiver_intersect(self, r, answer) ==
    IF ~answer.hit
    THEN [ray |-> r, self |-> self, some |-> FALSE,
          dg |-> LocalDg, material |-> "none"]
    ELSE [ray |-> [r EXCEPT !.max_t = answer.local.max_t], self |-> self,
          some |-> TRUE,
          dg |-> [f \in DOMAIN LocalDg |-> Mapped(self.transform, LocalDg[f].v)],
          material |-> self.material]

\* emitter_intersect without `ray.max_t = local.max_t`
emitter_intersect_keeps_max_t(self, r, answer) ==
    IF ~answer.hit
    THEN [ray |-> r, self |-> self, some |-> FALSE,
          dg |-> LocalDg, material |-> "none"]
    ELSE [ray |-> r, self |-> self, some |-> TRUE,
          dg |-> [f \in DOMAIN LocalDg |-> Mapped(self.transform, LocalDg[f].v)],
          material |-> self.material]

\* Emitter::intersect
emitter_intersect(self, r, answer) ==
    IF ~answer.hit
    THEN [ray |-> r, self |-> self, some |-> FALSE,
          dg |-> LocalDg, material |-> "none"]
    ELSE [ray |-> [r EXCEPT !.max_t = answer.local.max_t], self |-> self,
          some |-> TRUE,
          dg |-> [f \in DOMAIN LocalDg |-> Mapped(self.transform, LocalDg[f].v)],
          material |-> self.material]

\* Instance::intersect: the active variant's intersect; a hit is wrapped into
\* an Intersection that refers back to the instance
instance_intersect(self, r, answer) ==
    LET hit == IF self.kind = "Emitter" THEN emitter_intersect(self, r, answer)
               ELSE receiver_intersect(self, r, answer)
    IN  [ray |-> hit.ray, self |-> hit.self, some |-> hit.some,
         dg |-> hit.dg, material |-> hit.material,
         instance |-> IF hit.some THEN self.tag ELSE 0]

\* ------------------------------------------------------------------ state

VARIABLES
    anim,       \* the AnimatedTransform being built: its `keyframes` field
    pc,         \* "start", "built", or "panicked" once a call has panicked
    ret,        \* the call on anim that has just returned, and its value
    given,      \* how anim was built: the constructor, the keyframes handed
                \* to it and to insert, and whether it was composed since
    operands,   \* composition: the AnimatedTransforms A, B and C
    products,   \* composition: the products computed so far
    ray,        \* instances: the caller's world-space ray
    ray0,       \* instances: the ray before the first test
    scene,      \* instances: the instances and how their geometry answers
    tested,     \* instances: the instances the ray was tested against so far
    last        \* instances: the last intersect call

animVars == <<anim, pc, ret, given>>
mulVars == <<operands, products>>
rayVars == <<ray, ray0, scene, tested, last>>
vars == <<animVars, mulVars, rayVars>>

NoRet == [op |-> "none", time |-> 0, start |-> 0, end |-> 0, out |-> << >>,
          box |-> {}, flag |-> FALSE, calls |-> << >>]

NoOperands == [a |-> << >>, b |-> << >>, c |-> << >>]

NoProducts == [stage |-> 0, ab |-> << >>, ab_c |-> << >>, bc |-> << >>,
               a_bc |-> << >>, time |-> 0, evaluated |-> FALSE,
               t_a |-> << >>, t_b |-> << >>, t_ab |-> << >>,
               t_ab_c |-> << >>, t_a_bc |-> << >>]

NoRay == [o |-> Mapped("id", "o"), d |-> Mapped("id", "d"),
          min_t |-> 0, max_t |-> 0]

NoScene == [instances |-> Instances,
            hit_at |-> [i \in InstanceIds |-> NoHit],
            behaviour |-> [g \in {"g1", "g2"} |-> "exact"]]

NoLast == [via |-> "none", inst |-> 0, before |-> NoRay, local |-> NoRay,
           local_after |-> NoRay, geom_hit |-> FALSE, some |-> FALSE,
           dg |-> LocalDg, material |-> "none", instance |-> 0,
           scene_before |-> NoScene]

NoneGiven == [from |-> "none", keys |-> {}, composed |-> FALSE]

AnimIdle == anim = new /\ pc = "start" /\ ret = NoRet /\ given = NoneGiven
MulIdle == operands = NoOperands /\ products = NoProducts
RayIdle == /\ ray = NoRay /\ ray0 = NoRay /\ scene = NoScene
           /\ tested = {} /\ last = NoLast

\* ------------------------------------ building and querying one transform

RECURSIVE SeqsUpTo(_, _)
SeqsUpTo(S, n) ==
    IF n = 0 THEN { << >> }
    ELSE LET shorter == SeqsUpTo(S, n - 1)
         IN  shorter \cup { Append(s, x) : s \in { t \in shorter : Len(t) = n - 1 }, x \in S }

\* the levels of the other operand of a composition: a static level, and a
\* level that moves between two keyframes
MulLevels == { collect(<< Keyframe(1) >>), collect(<< Keyframe(0), Keyframe(1) >>) }

\* the single-level transforms a composition takes as its other operand
SingleLevel == { with_keyframes(<< Keyframe(1) >>),
                 with_keyframes(<< Keyframe(0), Keyframe(1) >>) }

ToSet(seq) == { seq[i] : i \in 1..Len(seq) }

Ready == pc = "built" /\ ret = NoRet

New ==
    /\ pc = "start"
    /\ anim' = new
    /\ pc' = "built"
    /\ ret' = [NoRet EXCEPT !.op = "new"]
    /\ given' = [NoneGiven EXCEPT !.from = "new"]
    /\ UNCHANGED <<mulVars, rayVars>>

WithKeyframes ==
    /\ pc = "start"
    /\ \E vec \in SeqsUpTo(Keyframes, MaxKeys) :
          /\ anim' = with_keyframes(vec)
          /\ given' = [NoneGiven EXCEPT !.from = "with_keyframes", !.keys = ToSet(vec)]
    /\ pc' = "built"
    /\ ret' = [NoRet EXCEPT !.op = "with_keyframes"]
    /\ UNCHANGED <<mulVars, rayVars>>

Insert ==
    /\ Ready
    /\ \E k \in Keyframes :
          IF insert_panics(anim)
          THEN /\ pc' = "panicked"
               /\ ret' = [NoRet EXCEPT !.op = "insert"]
               /\ UNCHANGED <<anim, given>>
          ELSE /\ Len(anim[1]) < MaxKeys
               /\ anim' = insert(anim, k)
               /\ given' = [given EXCEPT !.keys = @ \cup {k}]
               /\ ret' = [NoRet EXCEPT !.op = "insert"]
               /\ pc' = pc
    /\ UNCHANGED <<mulVars, rayVars>>

\* anim * rhs
MulRhs ==
    /\ Ready
    /\ \E rhs \in SingleLevel :
          /\ Len(anim) + Len(rhs) <= MaxLevels
          /\ anim' = mul(anim, rhs)
    /\ ret' = [NoRet EXCEPT !.op = "mul"]
    /\ given' = [given EXCEPT !.composed = TRUE]
    /\ UNCHANGED <<pc, mulVars, rayVars>>

\* lhs * anim
MulLhs ==
    /\ Ready
    /\ \E lhs \in SingleLevel :
          /\ Len(anim) + Len(lhs) <= MaxLevels
          /\ anim' = mul(lhs, anim)
    /\ ret' = [NoRet EXCEPT !.op = "mul"]
    /\ given' = [given EXCEPT !.composed = TRUE]
    /\ UNCHANGED <<pc, mulVars, rayVars>>

Transform ==
    /\ Ready
    /\ \E time \in QueryTimes :
          IF transform_panics(anim)
          THEN /\ pc' = "panicked"
               /\ ret' = [NoRet EXCEPT !.op = "transform", !.time = time]
          ELSE /\ pc' = pc
               /\ ret' = [NoRet EXCEPT !.op = "transform", !.time = time,
                              !.out = transform(anim, time),
                              !.calls = [i \in 1..Len(anim) |->
                                           [t |-> level_transform(anim[i], time)]
                                           @@ level_eval(anim[i], time)]]
    /\ UNCHANGED <<anim, given, mulVars, rayVars>>

IsAnimated ==
    /\ Ready
    /\ ret' = [NoRet EXCEPT !.op = "is_animated", !.flag = is_animated(anim)]
    /\ UNCHANGED <<anim, pc, given, mulVars, rayVars>>

AnimationBounds ==
    /\ Ready
    /\ \E w \in Windows :
          IF transform_panics(anim)
          THEN /\ pc' = "panicked"
               /\ ret' = [NoRet EXCEPT !.op = "animation_bounds",
                              !.start = w[1], !.end = w[2]]
          ELSE /\ pc' = pc
               /\ ret' = [NoRet EXCEPT !.op = "animation_bounds",
                              !.start = w[1], !.end = w[2],
                              !.flag = is_animated(anim),
                              !.box = animation_bounds(anim, w[1], w[2])]
    /\ UNCHANGED <<anim, given, mulVars, rayVars>>

\* the caller is done with the returned value
Return ==
    /\ pc = "built"
    /\ ret # NoRet
    /\ ret' = NoRet
    /\ UNCHANGED <<anim, pc, given, mulVars, rayVars>>

Init == AnimIdle /\ MulIdle /\ RayIdle

Next ==
    \/ New
    \/ WithKeyframes
    \/ Insert
    \/ MulRhs
    \/ MulLhs
    \/ Transform
    \/ IsAnimated
    \/ AnimationBounds
    \/ Return

Spec == Init /\ [][Next]_vars

\* ------------------------------------------------------------ composition

Operands == SeqsUpTo(MulLevels, MaxLevels)

InitMul ==
    /\ AnimIdle
    /\ RayIdle
    /\ operands \in [a : Operands, b : Operands, c : Operands]
    /\ products = NoProducts

\* a * b
MulAB ==
    /\ products.stage = 0
    /\ products' = [products EXCEPT !.stage = 1,
                                    !.ab = mul(operands.a, operands.b)]
    /\ UNCHANGED <<operands, animVars, rayVars>>

\* (a * b) * c
MulABThenC ==
    /\ products.stage = 1
    /\ products' = [products EXCEPT !.stage = 2,
                                    !.ab_c = mul(products.ab, operands.c)]
    /\ UNCHANGED <<operands, animVars, rayVars>>

\* b * c
MulBC ==
    /\ products.stage = 2
    /\ products' = [products EXCEPT !.stage = 3,
                                    !.bc = mul(operands.b, operands.c)]
    /\ UNCHANGED <<operands, animVars, rayVars>>

\* a * (b * c)
MulAThenBC ==
    /\ products.stage = 3
    /\ products' = [products EXCEPT !.stage = 4,
                                    !.a_bc = mul(operands.a, products.bc)]
    /\ UNCHANGED <<operands, animVars, rayVars>>

\* transform(time) of the operands and of the products
Evaluate ==
    /\ products.stage = 4
    /\ \E time \in QueryTimes :
          products' = [products EXCEPT
                          !.time = time, !.evaluated = TRUE,
                          !.t_a = transform(operands.a, time),
                          !.t_b = transform(operands.b, time),
                          !.t_ab = transform(products.ab, time),
                          !.t_ab_c = transform(products.ab_c, time),
                          !.t_a_bc = transform(products.a_bc, time)]
    /\ UNCHANGED <<operands, animVars, rayVars>>

NextMul ==
    \/ MulAB
    \/ MulABThenC
    \/ MulBC
    \/ MulAThenBC
    \/ Evaluate

SpecMul == InitMul /\ [][NextMul]_vars

\* ---------------------------------------------------------- intersection

Rays == { [NoRay EXCEPT !.min_t = lo, !.max_t = hi] :
            lo \in 1..2, hi \in 1..Infinity }

Scenes == { [NoScene EXCEPT !.hit_at = h, !.behaviour = b] :
              h \in [InstanceIds -> {NoHit} \cup 1..MaxDist],
              b \in { [NoScene.behaviour EXCEPT !["g2"] = x] : x \in {"exact", "sloppy"} } }

InitRay ==
    /\ AnimIdle
    /\ MulIdle
    /\ ray0 \in Rays
    /\ ray = ray0
    /\ scene \in Scenes
    /\ tested = {}
    /\ last = NoLast

\* one call `via` Receiver::intersect, Emitter::intersect or
\* Instance::intersect on instance i, with the geometry's answer
Call(via, i, answer, r) ==
    /\ ray' = r.ray
    /\ scene' = [scene EXCEPT !.instances[i] = r.self]
    /\ tested' = tested \cup {i}
    /\ last' = [via |-> via, inst |-> i, before |-> ray,
                local |-> inv_mul_ray(scene.instances[i].transform, ray),
                local_after |-> answer.local, geom_hit |-> answer.hit,
                some |-> r.some, dg |-> r.dg, material |-> r.material,
                instance |-> IF via = "Instance" THEN r.instance ELSE 0,
                scene_before |-> scene]
    /\ UNCHANGED <<ray0, animVars, mulVars>>

Answers(i) ==
    geom_intersect(scene.behaviour[scene.instances[i].geom], scene.hit_at[i],
                   inv_mul_ray(scene.instances[i].transform, ray))

ReceiverIntersect ==
    \E i \in InstanceIds :
        /\ scene.instances[i].kind = "Receiver"
        /\ \E answer \in Answers(i) :
              Call("Receiver", i, answer,
                   [instance |-> 0] @@ receiver_intersect(scene.instances[i], ray, answer))

EmitterIntersect ==
    \E i \in InstanceIds :
        /\ scene.instances[i].kind = "Emitter"
        /\ \E answer \in Answers(i) :
              Call("Emitter", i, answer,
                   [instance |-> 0] @@ emitter_intersect(scene.instances[i], ray, answer))

InstanceIntersect ==
    \E i \in InstanceIds :
        \E answer \in Answers(i) :
            Call("Instance", i, answer,
                 instance_intersect(scene.instances[i], ray, answer))

NextRay ==
    \/ ReceiverIntersect
    \/ EmitterIntersect
    \/ InstanceIntersect

SpecRay == InitRay /\ [][NextRay]_vars


\* ----------------------------------------------------------------- claims

Min(S) == CHOOSE x \in S : \A y \in S : x <= y

Called(op) == pc = "built" /\ ret.op = op

\* C1 (SpecRay): Receiver::intersect, Emitter::intersect and
\* Instance::intersect return Some exactly when the geometry reports a hit on
\* the local ray; on a miss the caller's ray is in every field as it was
\* before the call, even if the geometry wrote to the local ray; on a hit only
\* max_t differs and it is the local ray's max_t as the geometry left it.
\* Neither way does the instance, its geometry or its material change.
C1_RayChangesIffHit ==
    last.via # "none" =>
        /\ last.some = last.geom_hit
        /\ ~last.geom_hit => ray = last.before
        /\ last.geom_hit =>
              ray = [last.before EXCEPT !.max_t = last.local_after.max_t]
        /\ scene = last.scene_before

\* a miss on which the geometry wrote to the local ray, through a Receiver
C1_Witness ==
    /\ last.via = "Receiver"
    /\ ~last.geom_hit
    /\ last.local_after.max_t # last.local.max_t
    /\ ray = last.before

\* C2 (SpecMul), as claimed: A * B has A's levels followed by B's, and
\* (A * B).transform(t) = B.transform(t) * A.transform(t).
C2_LeftOperandIsChild ==
    products.stage >= 1 =>
        /\ products.ab = operands.a \o operands.b
        /\ products.evaluated => products.t_ab = TMul(products.t_b, products.t_a)

\* C2 (SpecMul), amended: A * B has B's levels in their order followed by A's
\* levels in their order, so the right operand is the child of the left one:
\* (A * B).transform(t) = A.transform(t) * B.transform(t) for every time t.
C2_RightOperandIsChild ==
    products.stage >= 1 =>
        /\ products.ab = operands.b \o operands.a
        /\ products.evaluated => products.t_ab = TMul(products.t_a, products.t_b)

\* two operands with levels whose transforms at the time do not commute
C2_Witness ==
    /\ products.evaluated
    /\ operands.a # << >>
    /\ operands.b # << >>
    /\ TMul(products.t_a, products.t_b) # TMul(products.t_b, products.t_a)

\* C3 (Spec): whenever is_animated() is false for a transform of one or more
\* levels, each with a keyframe, transform(t) is the same at every time, and
\* the box animation_bounds returns covers transform(t) * box for every t in
\* [start, end].
C3_NotAnimatedIsConstant ==
    (Called("animation_bounds") /\ ~ret.flag /\ Len(anim) >= 1) =>
        /\ \A t1, t2 \in QueryTimes : transform(anim, t1) = transform(anim, t2)
        /\ \A t \in QueryTimes :
              (ret.start <= t /\ t <= ret.end) => transform(anim, t) \in ret.box

\* C4 (Spec): after new(), every insert of keyframes with distinct times
\* completes, and leaves one level holding exactly the keyframes inserted, as
\* with_keyframes would.
C4_InsertAfterNew ==
    (ret.op = "insert" /\ given.from = "new" /\ ~given.composed) =>
        /\ pc # "panicked"
        /\ Len(anim) = 1
        /\ ToSet(anim[1]) = given.keys
        /\ \E vec \in SeqsUpTo(given.keys, Cardinality(given.keys)) :
              anim = with_keyframes(vec)

Adjacent(stack, first, second) ==
    \E j \in 1..(Len(stack) - 1) : stack[j] = first /\ stack[j + 1] = second

\* C5 (Spec): transform(time) never extrapolates.  A level of two or more
\* keyframes evaluates to its first keyframe's transform when time is at or
\* before that keyframe, to its last keyframe's transform when time is after
\* that keyframe, and otherwise to keyframe::interpolate of two keyframes
\* adjacent in time with first.time < time <= second.time.  A level of one
\* keyframe evaluates to that keyframe's transform at every time.
C5_NeverExtrapolates ==
    Called("transform") =>
        \A i \in 1..Len(anim) :
            LET stack == anim[i]
                e == ret.calls[i]
                n == Len(stack)
            IN  /\ n = 1 => e.kind = "single" /\ e.t = KeyTransform(stack[1])
                /\ n >= 2 =>
                      IF ret.time <= stack[1].time
                      THEN e.kind # "interpolate" /\ e.t = KeyTransform(stack[1])
                      ELSE IF ret.time > stack[n].time
                      THEN e.kind # "interpolate" /\ e.t = KeyTransform(stack[n])
                      ELSE /\ e.kind = "interpolate"
                           /\ Adjacent(stack, e.first, e.second)
                           /\ e.first.time < ret.time
                           /\ ret.time <= e.second.time
                           /\ e.t = interpolate(ret.time, e.first, e.second)

\* a level of three keyframes queried strictly between its last two
C5_Witness ==
    /\ Called("transform")
    /\ \E i \in 1..Len(anim) :
          /\ Len(anim[i]) >= 3
          /\ ret.calls[i].kind = "interpolate"
          /\ ret.calls[i].first = anim[i][2]
          /\ ret.time < ret.calls[i].second.time

\* C6 (Spec): with the per-level transforms L0 .. L(n-1) at the time,
\* transform returns L(n-1) * ... * L1 * L0: factor j from the left is the
\* transform of level n - j.  With no levels it returns the identity.
C6_ParentAfterChild ==
    Called("transform") =>
        /\ Len(ret.out) = Len(anim)
        /\ \A j \in 1..Len(anim) :
              << ret.out[j] >> = ret.calls[Len(anim) + 1 - j].t
        /\ anim = << >> => ret.out = Identity

\* two levels whose transforms at the time differ
C6_Witness ==
    /\ Called("transform")
    /\ Len(anim) >= 2
    /\ ret.calls[1].t # ret.calls[2].t
    /\ ret.out = TMul(ret.calls[2].t, ret.calls[1].t)

\* C7 (Spec): animation_bounds(box, start, end) is transform(start) * box
\* when is_animated() is false; when it is true it is the union of
\* transform(t_i) * box over t_i = start + (end - start) * i / 127,
\* i = 0 .. 127, with t_0 = start and t_127 = end, so that it covers the box
\* at start and the box at end.
C7_SampledBounds ==
    Called("animation_bounds") =>
        LET t(i) == (ret.start * (127 - i) + ret.end * i) \div 127
        IN  IF ~is_animated(anim)
            THEN ret.box = { transform(anim, ret.start) }
            ELSE /\ ret.box = { transform(anim, t(i)) : i \in 0..127 }
                 /\ t(0) = ret.start
                 /\ t(127) = ret.end
                 /\ transform(anim, ret.start) \in ret.box
                 /\ transform(anim, ret.end) \in ret.box

\* an animated level sampled over an interval in which it moves
C7_Witness ==
    /\ Called("animation_bounds")
    /\ ret.flag
    /\ Len(anim) >= 1
    /\ ret.start # ret.end
    /\ Cardinality(ret.box) > 2
    /\ transform(anim, ret.end) # transform(anim, ret.start)

\* C8 (SpecMul): (A * B) * C and A * (B * C) have the same levels in the same
\* order, hence the same is_animated() and the same transform(t).
C8_Associative ==
    products.stage = 4 =>
        /\ products.ab_c = products.a_bc
        /\ is_animated(products.ab_c) = is_animated(products.a_bc)
        /\ products.evaluated => products.t_ab_c = products.t_a_bc

\* three operands, one of them of two levels, evaluated where two of the
\* level transforms do not commute
C8_Witness ==
    /\ products.evaluated
    /\ Len(operands.a) = 2
    /\ operands.b # << >>
    /\ operands.c # << >>
    /\ Len(products.ab_c) = Len(operands.a) + Len(operands.b) + Len(operands.c)
    /\ TMul(products.t_a, products.t_b) # TMul(products.t_b, products.t_a)

\* C9 (Spec): transform and animation_bounds on a transform without levels
\* fail; they do not return a transform or a box.
C9_ZeroLevelsFailFast ==
    (ret.op \in {"transform", "animation_bounds"} /\ anim = << >>) =>
        pc = "panicked"

AllExact == \A g \in DOMAIN scene.behaviour : scene.behaviour[g] = "exact"

\* the distances at which the ray, as it was before the first test, hits
HitDistances ==
    { scene.hit_at[i] : i \in { j \in InstanceIds :
          scene.hit_at[j] # NoHit /\ ray0.min_t <= scene.hit_at[j] } }

\* C10 (SpecRay): with geometries that hit only within the local ray's
\* [min_t, max_t] and set the local max_t to the hit distance, the local ray
\* carries the world ray's bounds, max_t never grows over a call, an instance
\* whose hit lies beyond the current max_t reports no hit, and once every
\* instance has been tested, in whatever order, max_t is the least of its
\* first value and the instances' hit distances.
C10_NearestHitWins ==
    AllExact =>
        /\ last.via # "none" =>
              /\ last.local.min_t = last.before.min_t
              /\ last.local.max_t = last.before.max_t
              /\ ray.max_t <= last.before.max_t
              /\ scene.hit_at[last.inst] > last.before.max_t => ~last.some
        /\ tested = InstanceIds =>
              ray.max_t = Min({ ray0.max_t } \cup HitDistances)

\* all instances tested, the Emitter's hit the nearest, and the last one
\* tested culled by a bound an earlier hit set
C10_Witness ==
    /\ AllExact
    /\ tested = InstanceIds
    /\ ray.max_t < ray0.max_t
    /\ ray.max_t = scene.hit_at[2]
    /\ \A i \in InstanceIds \ {2} : scene.hit_at[i] > scene.hit_at[2]
    /\ last.inst # 2
    /\ scene.hit_at[last.inst] <= ray0.max_t
    /\ ~last.some

=============================================================================
